---- MODULE Spec2Model ----
(***************************************************************************)
(* Model of cmd/av/branch.go: the two branch-graph operations of `av       *)
(* branch`, createBranch (adopt a new stacked branch) and branchMove       *)
(* (rename a branch), over a git repository and the av metadata store.     *)
(*                                                                         *)
(* Each operation is a sequence of steps, one per adapter call or block of *)
(* the Go function; pc holds the position of the single running command.   *)
(* The git adapter, the metadata transaction and the cleanup stack live    *)
(* outside branch.go; they are modelled by the operators of the first      *)
(* sections, from their interfaces.                                        *)
(***************************************************************************)
EXTENDS Naturals, Sequences, FiniteSets, TLC

(***************************************************************************)
(* Bounds                                                                  *)
(***************************************************************************)
\* number of `av branch` invocations in one behaviour
MaxOps == 2

\* the non-trunk branch names in play: a renamed branch, its new name and a child
Features == {"f1", "f2", "f3"}

(***************************************************************************)
(* The repository's fixed surroundings                                     *)
(***************************************************************************)
TrunkName == "main"
RemoteName == "origin"
BranchNames == Features \cup {TrunkName}
\* commit of the remote-tracking ref origin/main (ahead of local main)
RemoteTrunkCommit == "c2"
LocalTrunkCommit == "c1"

Nil == <<>>
PR1 == <<1>>

(***************************************************************************)
(* meta.Branch and meta.BranchState                                        *)
(***************************************************************************)
BranchState(name, trunk, headc) == [Name |-> name, Trunk |-> trunk, Head |-> headc]
Branch(name, parent, pr) == [Name |-> name, Parent |-> parent, PullRequest |-> pr]
\* Go's zero value of meta.Branch, what tx.Branch returns with ok = false
ZeroBranch == Branch("", BranchState("", FALSE, ""), Nil)

(***************************************************************************)
(* Errors returned by the two operations                                   *)
(***************************************************************************)
NoError == "nil"
ErrDefaultBranch == "failed to determine repository default branch"
ErrCurrentBranch == "failed to get current branch name"
ErrIsTrunk == "failed to determine if branch is a trunk"
ErrParentHead == "failed to determine head commit of branch"
ErrParentNotAdopted == "errParentNotAdopted"
ErrStartPoint == "failed to determine commit hash of starting point"
ErrCheckout == "checkout error"
ErrCommit == "tx.Commit error"
ErrBadName == "the branch name should be NEW_BRANCH or OLD_BRANCH:NEW_BRANCH"
ErrCurrentBranchMove == "repo.CurrentBranchName error"
ErrSelfRename == "cannot rename branch to itself"
ErrExitSilently == "ErrExitSilently{ExitCode: 127}"
ErrBranchExist == "repo.DoesBranchExist error"
ErrGitRename == "failed to rename Git branch"

VARIABLES
    db,          \* committed metadata store: branch name -> meta.Branch
    gitBranches, \* local git branches: name -> commit
    head,        \* the checked-out branch
    pc,          \* position of the running command ("idle" between commands)
    frame,       \* the local variables of the running function
    reterr,      \* the function's result
    txStatus,    \* the write transaction: none, open, committed, aborted, commitFailed
    txView,      \* the store as the transaction sees it (committed + staged writes)
    cu,          \* the cleanup stack: [fns: sequence, cancelled: flag]
    pre,         \* db, gitBranches and head when the command started
    args,        \* the command's arguments
    trace,       \* the side-effecting calls the command made, in order
    ops          \* commands started so far

vars == <<db, gitBranches, head, pc, frame, reterr, txStatus, txView, cu, pre, args, trace, ops>>

(***************************************************************************)
(* Finite maps                                                             *)
(***************************************************************************)
Put(f, k, v) == [x \in DOMAIN f \cup {k} |-> IF x = k THEN v ELSE f[x]]
Remove(f, k) == [x \in DOMAIN f \ {k} |-> f[x]]
EmptyMap == [x \in {} |-> Nil]

(***************************************************************************)
(* The git adapter (internal/git)                                          *)
(***************************************************************************)
RemoteRef(name) == RemoteName \o "/" \o name

\* strings.TrimPrefix(s, remoteName+"/") over the names in play
TrimRemotePrefix(s) ==
    IF \E n \in BranchNames \cup {"HEAD"} : s = RemoteRef(n)
    THEN CHOOSE n \in BranchNames \cup {"HEAD"} : s = RemoteRef(n)
    ELSE s

\* repo.IsTrunkBranch
IsTrunkBranch(name) == name = TrunkName

\* repo.RevParse: the refs that resolve, and what they resolve to
RevResolves(g, rev) == rev \in DOMAIN g \/ rev = RemoteRef(TrunkName)
RevParse(g, rev) == IF rev \in DOMAIN g THEN g[rev] ELSE RemoteTrunkCommit

\* repo.DoesBranchExist
DoesBranchExist(g, name) == name \in DOMAIN g

\* git checkout -b name hash: refused when the branch exists
CanCreateBranch(g, name) == name \notin DOMAIN g
\* git checkout name
CanCheckout(g, name) == name \in DOMAIN g
\* git branch -d name: refused for a missing or the checked-out branch
CanDelete(g, h, name) == name \in DOMAIN g /\ name # h
\* git branch -m new (one argument: the checked-out branch is the one renamed);
\* refused when another branch already has the name
CanRename(g, h, new) == new = h \/ new \notin DOMAIN g
RenameCurrent(g, h, new) == IF new = h THEN g ELSE Put(Remove(g, h), new, g[h])

(***************************************************************************)
(* The metadata transaction (internal/meta)                                *)
(***************************************************************************)
\* tx.Branch: (record, exists)
TxHas(view, name) == name \in DOMAIN view
TxBranch(view, name) == IF name \in DOMAIN view THEN view[name] ELSE ZeroBranch
\* tx.SetBranch
TxSetBranch(view, b) == Put(view, b.Name, b)
\* tx.DeleteBranch
TxDeleteBranch(view, name) == Remove(view, name)
\* meta.Children(tx, name): the records of the transaction's view whose parent is name
Children(view, name) == {n \in DOMAIN view : view[n].Parent.Name = name}

(***************************************************************************)
(* The cleanup stack (internal/utils/cleanup)                              *)
(***************************************************************************)
\* cleanup.New(fn)
CleanupNew(fn) == [fns |-> <<fn>>, cancelled |-> FALSE]
\* cu.Add(fn)
CleanupAdd(c, fn) == [c EXCEPT !.fns = Append(@, fn)]
\* cu.Cancel()
CleanupCancel(c) == [c EXCEPT !.cancelled = TRUE]
NoCleanup == [fns |-> <<>>, cancelled |-> FALSE]

(***************************************************************************)
(* The closures branch.go registers on the cleanup stack.  Each maps the   *)
(* part of the state a cleanup can touch, s = [git, head, tx, trace], to   *)
(* what it leaves.                                                         *)
(***************************************************************************)
\* func() { ...; tx.Abort() }
AbortTx(s) == [s EXCEPT !.tx = "aborted", !.trace = Append(@, "tx.Abort")]

\* the closure giving up once the checkout of the parent fails
BranchCleanup_StopsOnError(s, f) ==
    IF CanCheckout(s.git, f.parentBranchName)
    THEN LET s1 == [s EXCEPT !.head = f.parentBranchName,
                             !.trace = Append(@, "git.checkout")]
         IN  IF CanDelete(s1.git, s1.head, f.branchName)
             THEN [s1 EXCEPT !.git = Remove(@, f.branchName),
                             !.trace = Append(@, "git.branch -d")]
             ELSE [s1 EXCEPT !.trace = Append(@, "git.branch -d failed")]
    ELSE [s EXCEPT !.trace = Append(@, "git.checkout failed")]

\* func() { CheckoutBranch(parentBranchName); BranchDelete(branchName) }: each
\* call's error is logged and the next call still made
BranchCleanup(s, f) ==
    LET s1 == IF CanCheckout(s.git, f.parentBranchName)
              THEN [s EXCEPT !.head = f.parentBranchName,
                             !.trace = Append(@, "git.checkout")]
              ELSE [s EXCEPT !.trace = Append(@, "git.checkout failed")]
    IN  IF CanDelete(s1.git, s1.head, f.branchName)
        THEN [s1 EXCEPT !.git = Remove(@, f.branchName),
                        !.trace = Append(@, "git.branch -d")]
        ELSE [s1 EXCEPT !.trace = Append(@, "git.branch -d failed")]

RunFn(fn, s, f) == IF fn = "AbortTx" THEN AbortTx(s) ELSE BranchCleanup(s, f)

\* cu.Cleanup(): the registered functions, last registered first, unless cancelled
RECURSIVE RunFns(_, _, _)
RunFns(fns, s, f) ==
    IF fns = <<>> THEN s
    ELSE RunFns(SubSeq(fns, 1, Len(fns) - 1), RunFn(fns[Len(fns)], s, f), f)

CleanupRun(c, s, f) == IF c.cancelled THEN s ELSE RunFns(c.fns, s, f)

(***************************************************************************)
(* Local variables of createBranch and branchMove                          *)
(***************************************************************************)
ZeroFrame ==
    [op |-> "none",
     branchName |-> "", parentBranchName |-> "", defaultBranch |-> "",
     isBranchFromTrunk |-> FALSE, checkoutStartingPoint |-> "",
     parentHead |-> "", startPointCommitHash |-> "",
     oldBranch |-> "", newBranch |-> "", force |-> FALSE,
     currentMeta |-> ZeroBranch]

NoPre == [db |-> EmptyMap, git |-> EmptyMap, head |-> ""]

(***************************************************************************)
(* Initial states: a repository with trunk main (behind origin/main), f1   *)
(* tracked on trunk, with or without a pull request, its git branch        *)
(* possibly deleted locally; f2 absent, an untracked git branch, or        *)
(* tracked on f1; any existing branch checked out.                         *)
(***************************************************************************)
InitF1 == Branch("f1", BranchState(TrunkName, TRUE, ""), Nil)
InitF2 == Branch("f2", BranchState("f1", FALSE, "c3"), Nil)

Init ==
    /\ \E pr \in {Nil, PR1}, f1git \in BOOLEAN, f2 \in {"absent", "untracked", "tracked"} :
          LET d1 == Put(EmptyMap, "f1", [InitF1 EXCEPT !.PullRequest = pr])
              g0 == Put(EmptyMap, TrunkName, LocalTrunkCommit)
              g1 == IF f1git THEN Put(g0, "f1", "c3") ELSE g0
          IN  /\ db = IF f2 = "tracked" THEN Put(d1, "f2", InitF2) ELSE d1
              /\ gitBranches = IF f2 = "absent" THEN g1 ELSE Put(g1, "f2", "c4")
    /\ head \in DOMAIN gitBranches
    /\ pc = "idle"
    /\ frame = ZeroFrame
    /\ reterr = NoError
    /\ txStatus = "none"
    /\ txView = EmptyMap
    /\ cu = NoCleanup
    /\ pre = NoPre
    /\ args = <<>>
    /\ trace = <<>>
    /\ ops = 0

(***************************************************************************)
(* Returning from a step                                                   *)
(***************************************************************************)
\* return err, before `defer cu.Cleanup()` was reached
ReturnEarly(err) ==
    /\ reterr' = err
    /\ pc' = "done"
    /\ UNCHANGED <<db, gitBranches, head, frame, txStatus, txView, cu, pre, args, trace, ops>>

\* return err, with the deferred cu.Cleanup() pending
Return(err) ==
    /\ reterr' = err
    /\ pc' = "defer"
    /\ UNCHANGED <<db, gitBranches, head, frame, txStatus, txView, cu, pre, args, trace, ops>>

\* fall through to the next step with the locals updated
Step(next, f) ==
    /\ frame' = f
    /\ pc' = next
    /\ UNCHANGED <<db, gitBranches, head, reterr, txStatus, txView, cu, pre, args, trace, ops>>

\* a command starts
Enter(op, first, f, a) ==
    /\ pc = "idle"
    /\ ops < MaxOps
    /\ ops' = ops + 1
    /\ frame' = f
    /\ args' = a
    /\ pre' = [db |-> db, git |-> gitBranches, head |-> head]
    /\ pc' = first
    /\ UNCHANGED <<db, gitBranches, head, reterr, txStatus, txView, cu, trace>>

\* db.WriteTx(); cu := cleanup.New(abort); defer cu.Cleanup()
WriteTx(next) ==
    /\ txStatus' = "open"
    /\ txView' = db
    /\ cu' = CleanupNew("AbortTx")
    /\ trace' = Append(trace, "db.WriteTx")
    /\ pc' = next
    /\ UNCHANGED <<db, gitBranches, head, frame, reterr, pre, args, ops>>

\* the commit without cu.Cancel() before it
CancelAndCommit_NoCancel ==
    /\ pc' = "defer"
    /\ \/ /\ db' = txView
          /\ txStatus' = "committed"
          /\ reterr' = NoError
          /\ trace' = Append(trace, "tx.Commit")
       \/ /\ db' = db
          /\ txStatus' = "commitFailed"
          /\ reterr' = ErrCommit
          /\ trace' = Append(trace, "tx.Commit failed")
    /\ UNCHANGED <<gitBranches, head, frame, txView, cu, pre, args, ops>>

\* cu.Cancel(); if err := tx.Commit(); err != nil { return err }; return nil
CancelAndCommit ==
    /\ cu' = CleanupCancel(cu)
    /\ pc' = "defer"
    /\ \/ /\ db' = txView
          /\ txStatus' = "committed"
          /\ reterr' = NoError
          /\ trace' = trace \o <<"cu.Cancel", "tx.Commit">>
       \/ /\ db' = db
          /\ txStatus' = "commitFailed"
          /\ reterr' = ErrCommit
          /\ trace' = trace \o <<"cu.Cancel", "tx.Commit failed">>
    /\ UNCHANGED <<gitBranches, head, frame, txView, pre, args, ops>>

(***************************************************************************)
(* createBranch (branch.go 92-216)                                         *)
(***************************************************************************)
ParentArgs == {""} \cup BranchNames \cup {RemoteRef(n) : n \in BranchNames \cup {"HEAD"}}

\* lines 121-125: origin/HEAD names the default branch; a leading origin/ is dropped
ResolveParentName(parentBranchName, defaultBranch) ==
    TrimRemotePrefix(IF parentBranchName = RemoteRef("HEAD")
                     THEN defaultBranch ELSE parentBranchName)

\* the local parent used as starting point, trunk or not
CheckoutStartingPoint_Local(isBranchFromTrunk, parentBranchName, defaultBranch) ==
    parentBranchName

\* lines 131-135: a branch off trunk starts from the remote tracking branch
CheckoutStartingPoint(isBranchFromTrunk, parentBranchName, defaultBranch) ==
    IF isBranchFromTrunk THEN RemoteRef(defaultBranch) ELSE parentBranchName

\* the record check left out: any parent git resolves passes
ParentAdopted_Unchecked(view, parentBranchName) == TRUE

\* line 149: _, exist := tx.Branch(parentBranchName)
ParentAdopted(view, parentBranchName) == TxHas(view, parentBranchName)

\* the parent's head commit left out of the record
NewBranchRecord_NoHead(f) ==
    Branch(f.branchName, BranchState(f.parentBranchName, f.isBranchFromTrunk, ""), Nil)

\* lines 202-209: the record staged for the new branch
NewBranchRecord(f) ==
    Branch(f.branchName,
           BranchState(f.parentBranchName, f.isBranchFromTrunk, f.parentHead),
           Nil)

\* RunE, lines 60-69: av branch <branch-name> [<parent-branch>]
createBranch(branchName, parentBranchName) ==
    Enter("createBranch", "cb_DefaultBranch",
          [ZeroFrame EXCEPT !.op = "createBranch", !.branchName = branchName,
                            !.parentBranchName = parentBranchName],
          <<branchName, parentBranchName>>)

\* lines 100-103
cb_DefaultBranch ==
    /\ pc = "cb_DefaultBranch"
    /\ \/ ReturnEarly(ErrDefaultBranch)
       \/ Step("cb_WriteTx", [frame EXCEPT !.defaultBranch = TrunkName])

\* lines 105-110
cb_WriteTx ==
    /\ pc = "cb_WriteTx"
    /\ WriteTx("cb_ParentName")

\* lines 113-125
cb_ParentName ==
    /\ pc = "cb_ParentName"
    /\ \/ /\ frame.parentBranchName = ""
          /\ Return(ErrCurrentBranch)
       \/ LET given == IF frame.parentBranchName = "" THEN head ELSE frame.parentBranchName
          IN  Step("cb_IsTrunk",
                   [frame EXCEPT !.parentBranchName =
                                     ResolveParentName(given, frame.defaultBranch)])

\* lines 127-137
cb_IsTrunk ==
    /\ pc = "cb_IsTrunk"
    /\ \/ Return(ErrIsTrunk)
       \/ LET trunk == IsTrunkBranch(frame.parentBranchName)
          IN  Step(IF trunk THEN "cb_StartPoint" ELSE "cb_ParentHead",
                   [frame EXCEPT !.isBranchFromTrunk = trunk,
                                 !.checkoutStartingPoint =
                                     CheckoutStartingPoint(trunk, frame.parentBranchName,
                                                           frame.defaultBranch),
                                 !.parentHead = ""])

\* lines 138-152
cb_ParentHead ==
    /\ pc = "cb_ParentHead"
    /\ \/ /\ reterr' = ErrParentHead
          /\ pc' = "defer"
          /\ trace' = Append(trace, "rev-parse failed")
          /\ UNCHANGED <<db, gitBranches, head, frame, txStatus, txView, cu, pre, args, ops>>
       \/ /\ RevResolves(gitBranches, frame.parentBranchName)
          /\ IF ParentAdopted(txView, frame.parentBranchName)
             THEN Step("cb_StartPoint",
                       [frame EXCEPT !.parentHead =
                                         RevParse(gitBranches, frame.parentBranchName)])
             ELSE Return(ErrParentNotAdopted)

\* lines 165-168
cb_StartPoint ==
    /\ pc = "cb_StartPoint"
    /\ \/ Return(ErrStartPoint)
       \/ /\ RevResolves(gitBranches, frame.checkoutStartingPoint)
          /\ Step("cb_Checkout",
                  [frame EXCEPT !.startPointCommitHash =
                                    RevParse(gitBranches, frame.checkoutStartingPoint)])

\* lines 175-200: git checkout -b, then the branch cleanup is registered
cb_Checkout ==
    /\ pc = "cb_Checkout"
    /\ \/ Return(ErrCheckout)
       \/ /\ CanCreateBranch(gitBranches, frame.branchName)
          /\ gitBranches' = Put(gitBranches, frame.branchName, frame.startPointCommitHash)
          /\ head' = frame.branchName
          /\ cu' = CleanupAdd(cu, "BranchCleanup")
          /\ trace' = trace \o <<"git.checkout -b", "cu.Add">>
          /\ pc' = "cb_SetBranch"
          /\ UNCHANGED <<db, frame, reterr, txStatus, txView, pre, args, ops>>

\* lines 202-209
cb_SetBranch ==
    /\ pc = "cb_SetBranch"
    /\ txView' = TxSetBranch(txView, NewBranchRecord(frame))
    /\ trace' = Append(trace, "tx.SetBranch")
    /\ pc' = "cb_Commit"
    /\ UNCHANGED <<db, gitBranches, head, frame, reterr, txStatus, cu, pre, args, ops>>

\* lines 211-215
cb_Commit ==
    /\ pc = "cb_Commit"
    /\ CancelAndCommit

(***************************************************************************)
(* branchMove (branch.go 218-317).  The argument is held as its fields     *)
(* between ':' separators: <<"new">>, <<"old", "new">>, or more.           *)
(***************************************************************************)
MalformedArg == <<"f1", "f2", "f3">>
RenameArgs ==
    {<<n>> : n \in BranchNames} \cup (BranchNames \X BranchNames) \cup {MalformedArg}

\* line 224: strings.Count(newBranch, ":")
CountSeparators(arg) == Len(arg) - 1

\* a rename onto the same name let through
SameName_Never(oldBranch, newBranch) == FALSE

\* line 247: if oldBranch == newBranch
SameName(oldBranch, newBranch) == oldBranch = newBranch

\* the synthesized parent given the local trunk's commit as head
DefaultMeta_WithHead(currentMeta, defaultBranch) ==
    [currentMeta EXCEPT !.Parent = BranchState(defaultBranch, TRUE, LocalTrunkCommit)]

\* lines 257-260: no record for oldBranch, the branch is taken to sit on trunk
DefaultMeta(currentMeta, defaultBranch) ==
    [currentMeta EXCEPT !.Parent = BranchState(defaultBranch, TRUE, "")]

\* the force flag read the wrong way round
WouldOrphan_ForceInverted(force, currentMeta) == force /\ currentMeta.PullRequest # Nil

\* lines 263-264: the rename would orphan a pull request
WouldOrphan(force, currentMeta) == ~force /\ currentMeta.PullRequest # Nil

\* lines 281-282
RenamedMeta(currentMeta, newBranch) ==
    [currentMeta EXCEPT !.PullRequest = Nil, !.Name = newBranch]

\* the children of oldBranch left pointing at it
UpdateChildren_Skipped(view, oldBranch, newBranch) == view

\* lines 286-290: every child of oldBranch in the transaction is re-pointed
UpdateChildren(view, oldBranch, newBranch) ==
    [n \in DOMAIN view |->
        IF n \in Children(view, oldBranch)
        THEN [view[n] EXCEPT !.Parent.Name = newBranch]
        ELSE view[n]]

\* lines 297-300: git branch -m newBranch
GitBranchMove(g, h, oldBranch, newBranch) ==
    [ok |-> CanRename(g, h, newBranch),
     git |-> RenameCurrent(g, h, newBranch),
     head |-> newBranch]

\* the error of git branch -m logged and not returned: the function carries on
GitRenameFailed_Swallowed ==
    /\ trace' = Append(trace, "git.branch -m failed")
    /\ pc' = "bm_Commit"
    /\ UNCHANGED <<db, gitBranches, head, frame, reterr, txStatus, txView, cu, pre, args, ops>>

\* lines 300-302: return errors.WrapIff(err, "failed to rename Git branch")
GitRenameFailed ==
    /\ reterr' = ErrGitRename
    /\ pc' = "defer"
    /\ trace' = Append(trace, "git.branch -m failed")
    /\ UNCHANGED <<db, gitBranches, head, frame, txStatus, txView, cu, pre, args, ops>>

\* RunE, lines 60-63: av branch --rename [--force] <arg>
branchMove(arg, force) ==
    Enter("branchMove", "bm_Parse",
          [ZeroFrame EXCEPT !.op = "branchMove", !.force = force],
          <<arg, force>>)

\* lines 224-238
bm_Parse ==
    /\ pc = "bm_Parse"
    /\ LET arg == args[1]
       IN  IF CountSeparators(arg) > 1
           THEN ReturnEarly(ErrBadName)
           ELSE IF CountSeparators(arg) = 1
           THEN Step("bm_WriteTx", [frame EXCEPT !.oldBranch = arg[1], !.newBranch = arg[2]])
           ELSE \/ ReturnEarly(ErrCurrentBranchMove)
                \/ Step("bm_WriteTx", [frame EXCEPT !.oldBranch = head, !.newBranch = arg[1]])

\* lines 240-245
bm_WriteTx ==
    /\ pc = "bm_WriteTx"
    /\ WriteTx("bm_Lookup")

\* lines 247-261
bm_Lookup ==
    /\ pc = "bm_Lookup"
    /\ IF SameName(frame.oldBranch, frame.newBranch)
       THEN Return(ErrSelfRename)
       ELSE IF TxHas(txView, frame.oldBranch)
       THEN Step("bm_Guard", [frame EXCEPT !.currentMeta = TxBranch(txView, frame.oldBranch)])
       ELSE \/ Return(ErrDefaultBranch)
            \/ Step("bm_Guard",
                    [frame EXCEPT !.defaultBranch = TrunkName,
                                  !.currentMeta =
                                      DefaultMeta(TxBranch(txView, frame.oldBranch), TrunkName)])

\* lines 263-279
bm_Guard ==
    /\ pc = "bm_Guard"
    /\ IF WouldOrphan(frame.force, frame.currentMeta)
       THEN Return(ErrExitSilently)
       ELSE Step("bm_SetBranch", frame)

\* the renamed record written to the store at once, not staged
bm_SetBranch_WriteThrough ==
    /\ pc = "bm_SetBranch"
    /\ LET m == RenamedMeta(frame.currentMeta, frame.newBranch)
       IN  /\ frame' = [frame EXCEPT !.currentMeta = m]
           /\ txView' = TxSetBranch(txView, m)
           /\ db' = TxSetBranch(db, m)
    /\ trace' = Append(trace, "tx.SetBranch")
    /\ pc' = "bm_Children"
    /\ UNCHANGED <<gitBranches, head, reterr, txStatus, cu, pre, args, ops>>

\* lines 281-283
bm_SetBranch ==
    /\ pc = "bm_SetBranch"
    /\ LET m == RenamedMeta(frame.currentMeta, frame.newBranch)
       IN  /\ frame' = [frame EXCEPT !.currentMeta = m]
           /\ txView' = TxSetBranch(txView, m)
    /\ trace' = Append(trace, "tx.SetBranch")
    /\ pc' = "bm_Children"
    /\ UNCHANGED <<db, gitBranches, head, reterr, txStatus, cu, pre, args, ops>>

\* lines 285-291
bm_Children ==
    /\ pc = "bm_Children"
    /\ txView' = TxDeleteBranch(UpdateChildren(txView, frame.oldBranch, frame.newBranch),
                                frame.oldBranch)
    /\ trace' = trace \o [i \in 1..Cardinality(Children(txView, frame.oldBranch)) |->
                             "tx.SetBranch"] \o <<"tx.DeleteBranch">>
    /\ pc' = "bm_GitRename"
    /\ UNCHANGED <<db, gitBranches, head, frame, reterr, txStatus, cu, pre, args, ops>>

\* lines 293-310
bm_GitRename ==
    /\ pc = "bm_GitRename"
    /\ \/ Return(ErrBranchExist)
       \/ /\ ~DoesBranchExist(gitBranches, frame.oldBranch)
          /\ Step("bm_Commit", frame)
       \/ /\ DoesBranchExist(gitBranches, frame.oldBranch)
          /\ LET r == GitBranchMove(gitBranches, head, frame.oldBranch, frame.newBranch)
             IN  \/ GitRenameFailed
                 \/ /\ r.ok
                    /\ gitBranches' = r.git
                    /\ head' = r.head
                    /\ trace' = Append(trace, "git.branch -m")
                    /\ pc' = "bm_Commit"
                    /\ UNCHANGED <<db, frame, reterr, txStatus, txView, cu, pre, args, ops>>

\* lines 312-316
bm_Commit ==
    /\ pc = "bm_Commit"
    /\ CancelAndCommit

(***************************************************************************)
(* Function exit                                                           *)
(***************************************************************************)
\* defer cu.Cleanup() (lines 110, 245)
Cleanup ==
    /\ pc = "defer"
    /\ LET s == CleanupRun(cu, [git |-> gitBranches, head |-> head,
                                tx |-> txStatus, trace |-> trace], frame)
       IN  /\ gitBranches' = s.git
           /\ head' = s.head
           /\ txStatus' = s.tx
           /\ trace' = s.trace
    /\ pc' = "done"
    /\ UNCHANGED <<db, frame, reterr, txView, cu, pre, args, ops>>

\* the command has returned; the process exits
Exit ==
    /\ pc = "done"
    /\ pc' = "idle"
    /\ frame' = ZeroFrame
    /\ reterr' = NoError
    /\ txStatus' = "none"
    /\ txView' = EmptyMap
    /\ cu' = NoCleanup
    /\ pre' = NoPre
    /\ args' = <<>>
    /\ trace' = <<>>
    /\ UNCHANGED <<db, gitBranches, head, ops>>

Next ==
    \/ \E b \in BranchNames, p \in ParentArgs : createBranch(b, p)
    \/ cb_DefaultBranch
    \/ cb_WriteTx
    \/ cb_ParentName
    \/ cb_IsTrunk
    \/ cb_ParentHead
    \/ cb_StartPoint
    \/ cb_Checkout
    \/ cb_SetBranch
    \/ cb_Commit
    \/ \E a \in RenameArgs, force \in BOOLEAN : branchMove(a, force)
    \/ bm_Parse
    \/ bm_WriteTx
    \/ bm_Lookup
    \/ bm_Guard
    \/ bm_SetBranch
    \/ bm_Children
    \/ bm_GitRename
    \/ bm_Commit
    \/ Cleanup
    \/ Exit

Spec == Init /\ [][Next]_vars

(***************************************************************************)
(* The deferred cu.Cleanup() on drawn inputs.  createBranch has no return  *)
(* between cu.Add (line 185) and cu.Cancel (line 211), so the commands     *)
(* above meet the cleanup stack with the abort alone on it, or cancelled.  *)
(* CleanupInputs puts createBranch at its deferred cu.Cleanup() with the   *)
(* stack in each state lines 106-211 can build, over any repository: the   *)
(* parent or the new branch may be missing, either may be checked out.     *)
(***************************************************************************)
CleanupInputs ==
    \E S \in SUBSET BranchNames, b \in Features, p \in BranchNames,
       added \in BOOLEAN, cancelled \in BOOLEAN :
        /\ S # {}
        /\ gitBranches = [n \in S |-> LocalTrunkCommit]
        /\ head \in S
        /\ db = Put(EmptyMap, "f1", InitF1)
        /\ txView = db
        /\ pc = "defer"
        /\ frame = [ZeroFrame EXCEPT !.op = "createBranch", !.branchName = b,
                                     !.parentBranchName = p]
        /\ cu = [fns |-> IF added THEN <<"AbortTx", "BranchCleanup">> ELSE <<"AbortTx">>,
                 cancelled |-> cancelled]
        /\ reterr = IF cancelled THEN ErrCommit ELSE ErrCheckout
        /\ txStatus = IF cancelled THEN "commitFailed" ELSE "open"
        /\ trace = <<"db.WriteTx">>
                    \o (IF added THEN <<"git.checkout -b", "cu.Add">> ELSE <<>>)
                    \o (IF cancelled THEN <<"cu.Cancel", "tx.Commit failed">> ELSE <<>>)
        /\ pre = [db |-> db, git |-> gitBranches, head |-> head]
        /\ args = <<b, p>>
        /\ ops = MaxOps

CleanupInit == Init \/ CleanupInputs

CleanupSpec == CleanupInit /\ [][Next]_vars

(***************************************************************************)
(* Vocabulary of the properties                                            *)
(***************************************************************************)
Done == pc = "done"
AdoptDone == Done /\ frame.op = "createBranch"
RenameDone == Done /\ frame.op = "branchMove"
Succeeded == reterr = NoError
Called(call) == \E i \in 1..Len(trace) : trace[i] = call
\* kinds of calls in the trace of the running command
CommitInvoked(i) == trace[i] \in {"tx.Commit", "tx.Commit failed"}
AbortInvoked(i) == trace[i] = "tx.Abort"
StagedWrite(i) == trace[i] \in {"tx.SetBranch", "tx.DeleteBranch"}
GitRenameCall(i) == trace[i] \in {"git.branch -m", "git.branch -m failed"}
GitCall(i) ==
    trace[i] \in {"git.checkout -b", "git.branch -m", "git.branch -m failed",
                  "git.checkout", "git.checkout failed",
                  "git.branch -d", "git.branch -d failed"}
CompensationCall(i) ==
    trace[i] \in {"git.checkout", "git.checkout failed",
                  "git.branch -d", "git.branch -d failed", "tx.Abort"}
\* db, git branches and checkout are what they were when the command started
MetadataUntouched == db = pre.db
RepositoryUntouched == gitBranches = pre.git /\ head = pre.head
\* createBranch got as far as knowing its parent (lines 113-125 passed)
ParentResolved == AdoptDone /\ reterr \notin {ErrDefaultBranch, ErrCurrentBranch}
\* branchMove got as far as knowing OLD and NEW (lines 224-238 passed)
RenameParsed == RenameDone /\ reterr \notin {ErrBadName, ErrCurrentBranchMove}

\* target is met when following parent names from cur, within k hops
RECURSIVE Walk(_, _, _, _)
Walk(d, cur, target, k) ==
    IF cur = target THEN TRUE
    ELSE IF k = 0 \/ cur \notin DOMAIN d THEN FALSE
    ELSE Walk(d, d[cur].Parent.Name, target, k - 1)

OwnAncestor(d, n) == Walk(d, d[n].Parent.Name, n, Cardinality(DOMAIN d))
ReachesTrunk(d, n) == Walk(d, d[n].Parent.Name, TrunkName, Cardinality(DOMAIN d))

\* a rename request that names OLD and a different NEW, without force, for a
\* branch whose record carries a pull request
GuardedRename ==
    /\ RenameParsed
    /\ frame.oldBranch # frame.newBranch
    /\ ~frame.force
    /\ frame.oldBranch \in DOMAIN pre.db
    /\ pre.db[frame.oldBranch].PullRequest # Nil

\* the parent is resolved, not trunk by name, and without record
UntrackedParent ==
    /\ ParentResolved
    /\ ~IsTrunkBranch(frame.parentBranchName)
    /\ frame.parentBranchName \notin DOMAIN pre.db

\* the same, and repo.IsTrunkBranch answered (lines 127-137 passed)
UntrackedParentKnown == UntrackedParent /\ reterr # ErrIsTrunk

\* a successful adopt on a non-trunk parent, and what it leaves
AdoptedOnBranch == AdoptDone /\ Succeeded /\ ~frame.isBranchFromTrunk

AdoptOutcome ==
    LET P == frame.parentBranchName
        b == frame.branchName
    IN  /\ args[2] = "" => P = pre.head
        /\ P \in DOMAIN pre.db /\ P \in DOMAIN pre.git /\ ~IsTrunkBranch(P)
        /\ b \in DOMAIN db
        /\ db[b] = Branch(b, BranchState(P, FALSE, pre.git[P]), Nil)
        /\ b \notin DOMAIN pre.db
        /\ \A n \in DOMAIN pre.db : n \in DOMAIN db /\ db[n] = pre.db[n]
        /\ DOMAIN db = DOMAIN pre.db \cup {b}
        /\ b \notin DOMAIN pre.git
        /\ gitBranches = Put(pre.git, b, pre.git[P])
        /\ head = b

(***************************************************************************)
(* C1: adopt is all-or-nothing.  Whenever createBranch returns an error,   *)
(* at whatever step, the committed metadata, the set of git branches and   *)
(* the checked-out branch are what they were before the call.              *)
(***************************************************************************)
C1_AdoptAllOrNothing ==
    (AdoptDone /\ ~Succeeded) => (MetadataUntouched /\ RepositoryUntouched)

(***************************************************************************)
(* C2: rename propagation is complete.  After a successful rename of OLD   *)
(* to NEW, every record that had OLD as parent has NEW as parent (the      *)
(* record of OLD itself being the one now named NEW), no record has OLD as *)
(* parent and no record is named OLD.                                      *)
(***************************************************************************)
C2_RenamePropagation ==
    (RenameDone /\ Succeeded) =>
        LET old == frame.oldBranch
            new == frame.newBranch
        IN  /\ \A c \in DOMAIN pre.db :
                  pre.db[c].Parent.Name = old =>
                      LET now == IF c = old THEN new ELSE c
                      IN  now \in DOMAIN db /\ db[now].Parent.Name = new
            /\ \A n \in DOMAIN db : db[n].Parent.Name # old
            /\ old \notin DOMAIN db

(***************************************************************************)
(* C3: the committed parent graph is a forest.  In every committed store,  *)
(* following parent names from any record reaches trunk within as many     *)
(* hops as there are records, and no record is its own parent or ancestor. *)
(***************************************************************************)
C3_ForestAcyclicity ==
    \A n \in DOMAIN db : ReachesTrunk(db, n) /\ ~OwnAncestor(db, n)

(***************************************************************************)
(* C4: the orphan guard.  A rename of a branch whose record carries a pull *)
(* request, without force, returns ErrExitSilently and nothing else does;  *)
(* the committed metadata, the git branches and the checkout are what they *)
(* were, the transaction is aborted, never committed, and git branch -m is *)
(* not attempted.  (A rename is a request that names OLD and a different   *)
(* NEW: lines 224-249 have passed.)                                        *)
(***************************************************************************)
C4_OrphanGuard ==
    /\ GuardedRename =>
          /\ reterr = ErrExitSilently
          /\ MetadataUntouched
          /\ RepositoryUntouched
          /\ txStatus = "aborted"
          /\ ~Called("tx.Commit") /\ ~Called("tx.Commit failed")
          /\ ~Called("git.branch -m") /\ ~Called("git.branch -m failed")
    /\ (Done /\ reterr = ErrExitSilently) => GuardedRename

\* the guard refused the rename of a branch that has children
C4_GuardRefused ==
    /\ GuardedRename
    /\ reterr = ErrExitSilently
    /\ Children(pre.db, frame.oldBranch) # {}

(***************************************************************************)
(* C5 as claimed: whenever the resolved parent of an adopt is not trunk    *)
(* and has no record, createBranch returns errParentNotAdopted, whatever   *)
(* git answers for the parent ref, creates and checks out nothing and      *)
(* leaves the metadata unchanged.                                          *)
(***************************************************************************)
C5_ParentNotAdoptedAlways ==
    UntrackedParentKnown =>
        /\ reterr = ErrParentNotAdopted
        /\ ~Called("git.checkout -b")
        /\ MetadataUntouched
        /\ RepositoryUntouched

(***************************************************************************)
(* C5 as amended: with a non-trunk parent that has no record, createBranch *)
(* always fails, creates and checks out nothing and leaves the metadata    *)
(* unchanged; once the parent is known not to be trunk, the error is       *)
(* errParentNotAdopted unless the rev-parse of the parent failed (it comes *)
(* first, lines 140-147, and its own error is returned then); and          *)
(* errParentNotAdopted is returned in no other case.                       *)
(***************************************************************************)
C5_ParentNotAdopted ==
    /\ UntrackedParent =>
          /\ ~Succeeded
          /\ ~Called("git.checkout -b")
          /\ MetadataUntouched
          /\ RepositoryUntouched
    /\ UntrackedParentKnown => reterr \in {ErrParentNotAdopted, ErrParentHead}
    /\ (UntrackedParentKnown /\ ~Called("rev-parse failed")) => reterr = ErrParentNotAdopted
    /\ (Done /\ reterr = ErrParentNotAdopted) => UntrackedParentKnown

\* an adopt refused for a parent that is a git branch without record
C5_Refused ==
    /\ UntrackedParentKnown
    /\ reterr = ErrParentNotAdopted
    /\ frame.parentBranchName \in DOMAIN pre.git

(***************************************************************************)
(* C6: after a successful rename of OLD, a git branch, to NEW, the         *)
(* repository has NEW at the commit OLD had, no branch OLD, and every      *)
(* other branch as before; for OLD given as OLD:NEW too, checked out or    *)
(* not.                                                                    *)
(***************************************************************************)
C6_GitBranchRenamed ==
    (RenameDone /\ Succeeded /\ frame.oldBranch \in DOMAIN pre.git) =>
        LET old == frame.oldBranch
            new == frame.newBranch
        IN  /\ new \in DOMAIN gitBranches
            /\ gitBranches[new] = pre.git[old]
            /\ old \notin DOMAIN gitBranches
            /\ \A n \in BranchNames \ {old, new} :
                  /\ n \in DOMAIN gitBranches <=> n \in DOMAIN pre.git
                  /\ n \in DOMAIN pre.git => gitBranches[n] = pre.git[n]

(***************************************************************************)
(* C7: when git branch -m fails during a rename, after the new record, the *)
(* children and the deletion of OLD were staged, the transaction is        *)
(* aborted and never committed: the committed metadata is what it was      *)
(* before the call, and so are the git branches and the checkout.          *)
(***************************************************************************)
C7_GitRenameFailureAborts ==
    (RenameDone /\ Called("git.branch -m failed")) =>
        /\ reterr = ErrGitRename
        /\ txStatus = "aborted"
        /\ ~Called("tx.Commit") /\ ~Called("tx.Commit failed")
        /\ MetadataUntouched
        /\ RepositoryUntouched

\* git branch -m failed with the new record, a child and the deletion staged
C7_FailedAfterStaging ==
    /\ RenameDone
    /\ Called("git.branch -m failed")
    /\ frame.oldBranch \in DOMAIN pre.db
    /\ Children(pre.db, frame.oldBranch) # {}
    /\ frame.newBranch \in DOMAIN txView
    /\ frame.oldBranch \notin DOMAIN txView

(***************************************************************************)
(* C8: every failure of adopt or rename after the transaction was opened,  *)
(* a failed commit included, aborts the transaction and undoes the git     *)
(* side effects: the git branches and the checkout are what they were, so  *)
(* that repository and (unchanged) metadata still agree.                   *)
(***************************************************************************)
C8_FailureAbortsAndCompensates ==
    (Done /\ txStatus # "none" /\ ~Succeeded) =>
        /\ txStatus = "aborted"
        /\ MetadataUntouched
        /\ RepositoryUntouched

(***************************************************************************)
(* C9 as claimed: after any successful adopt of branchName on a non-trunk  *)
(* parent P, P is the branch that was checked out when no parent was       *)
(* given, and P is tracked; the committed store is the old one plus one    *)
(* record, {branchName, parent P, not trunk, head = P's commit} without    *)
(* pull request; the repository is the old one plus one branch,            *)
(* branchName, checked out.                                                *)
(***************************************************************************)
C9_AdoptPostconditionAnyName == AdoptedOnBranch => AdoptOutcome

(***************************************************************************)
(* C9 as amended: the same, for a branchName that had no record before the *)
(* call (a record under that name, left by a branch deleted locally, is    *)
(* replaced, not added to).                                                *)
(***************************************************************************)
C9_AdoptPostcondition ==
    (AdoptedOnBranch /\ frame.branchName \notin DOMAIN pre.db) => AdoptOutcome

\* a fresh branch adopted, with no parent given, on a tracked branch
C9_AdoptedOnCurrent ==
    /\ AdoptedOnBranch
    /\ frame.branchName \notin DOMAIN pre.db
    /\ args[2] = ""
    /\ pre.db[frame.parentBranchName].Parent.Trunk

(***************************************************************************)
(* C10: with force, a rename is never refused by the orphan guard, and the *)
(* record any successful rename of a tracked OLD commits under NEW has     *)
(* name NEW, no pull request, and the parent (name, trunk flag, head) that *)
(* OLD's record had.                                                       *)
(***************************************************************************)
C10_RenamedRecord ==
    /\ (RenameDone /\ frame.force) => reterr # ErrExitSilently
    /\ (RenameDone /\ Succeeded /\ frame.oldBranch \in DOMAIN pre.db) =>
          /\ frame.newBranch \in DOMAIN db
          /\ db[frame.newBranch] =
                Branch(frame.newBranch, pre.db[frame.oldBranch].Parent, Nil)

(***************************************************************************)
(* C11: a successful rename of an OLD that has no record commits, under    *)
(* NEW, the record {NEW, parent {trunk, isTrunk, no head}} without pull    *)
(* request, and leaves no record named OLD.                                *)
(***************************************************************************)
C11_UntrackedRename ==
    (RenameDone /\ Succeeded /\ frame.oldBranch \notin DOMAIN pre.db) =>
        /\ frame.newBranch \in DOMAIN db
        /\ db[frame.newBranch] =
              Branch(frame.newBranch, BranchState(TrunkName, TRUE, ""), Nil)
        /\ frame.oldBranch \notin DOMAIN db

(***************************************************************************)
(* C12: when OLD is not a git branch, a rename attempts no git branch -m   *)
(* and does not fail at the git step for it; the git branches and the      *)
(* checkout stay as they were, and on success the metadata update is       *)
(* committed: a record named NEW, every other record that had OLD as       *)
(* parent re-parented to NEW, no record named OLD.                         *)
(***************************************************************************)
C12_MetadataOnlyRename ==
    (RenameDone /\ frame.oldBranch \notin DOMAIN pre.git) =>
        LET old == frame.oldBranch
            new == frame.newBranch
        IN  /\ ~Called("git.branch -m") /\ ~Called("git.branch -m failed")
            /\ reterr # ErrGitRename
            /\ RepositoryUntouched
            /\ Succeeded =>
                  /\ new \in DOMAIN db /\ db[new].Name = new
                  /\ old \notin DOMAIN db
                  /\ \A c \in Children(pre.db, old) \ {old} :
                        c \in DOMAIN db /\ db[c].Parent.Name = new

(***************************************************************************)
(* C13: a rename whose argument has more than one ':', or whose old and    *)
(* new names are equal (given as old:new, or as new alone with that branch *)
(* checked out), is refused with the validation error and has no side      *)
(* effect: no record and no git branch changes, nothing is staged, and the *)
(* transaction is either never opened or aborted, never committed.         *)
(***************************************************************************)
C13_ValidationHasNoEffect ==
    (RenameDone /\ \/ CountSeparators(args[1]) > 1
                   \/ RenameParsed /\ frame.oldBranch = frame.newBranch) =>
        /\ reterr = IF CountSeparators(args[1]) > 1 THEN ErrBadName ELSE ErrSelfRename
        /\ MetadataUntouched
        /\ RepositoryUntouched
        /\ txStatus = IF CountSeparators(args[1]) > 1 THEN "none" ELSE "aborted"
        /\ \A i \in 1..Len(trace) : trace[i] \in {"db.WriteTx", "tx.Abort"}

\* `av branch --rename f` with f checked out was refused and its transaction aborted
C13_SelfRenameRefused ==
    /\ RenameDone /\ reterr = ErrSelfRename
    /\ Len(args[1]) = 1
    /\ txStatus = "aborted"

(***************************************************************************)
(* C14: in every committed state of the store, a record whose parent is    *)
(* marked as trunk has an empty parent head commit.                        *)
(***************************************************************************)
C14_TrunkParentHasNoHead ==
    \A n \in DOMAIN db : db[n].Parent.Trunk => db[n].Parent.Head = ""

\* a rename of a branch without record committed a record with a trunk parent
C14_TrunkParentCommitted ==
    /\ RenameDone /\ Succeeded
    /\ frame.oldBranch \notin DOMAIN pre.db
    /\ frame.newBranch \in DOMAIN db
    /\ db[frame.newBranch].Parent.Trunk

(***************************************************************************)
(* C15: in every committed state of the store, each record's parent name   *)
(* is the name of a record or the trunk name; and once a rename has        *)
(* committed, no record names the removed OLD as its parent.               *)
(***************************************************************************)
C15_NoDanglingParent ==
    /\ \A n \in DOMAIN db :
          db[n].Parent.Name \in DOMAIN db \/ db[n].Parent.Name = TrunkName
    /\ (RenameDone /\ Succeeded) =>
          /\ frame.oldBranch \notin DOMAIN db
          /\ \A n \in DOMAIN db : db[n].Parent.Name # frame.oldBranch

\* a rename committed the removal of a tracked branch that had children
C15_ParentRemoved ==
    /\ RenameDone /\ Succeeded
    /\ frame.oldBranch \in DOMAIN pre.db
    /\ \E c \in Children(pre.db, frame.oldBranch) :
          c \in DOMAIN db /\ c # frame.newBranch

(***************************************************************************)
(* C16: a successful adopt whose resolved parent is the trunk branch       *)
(* creates the new branch at the commit of origin/<trunk>, which is not    *)
(* the local trunk's commit when the two differ, and commits the record    *)
(* {parent name trunk, isTrunk, no head}, whether or not trunk itself has  *)
(* a record.                                                               *)
(***************************************************************************)
C16_AdoptOnTrunk ==
    (AdoptDone /\ Succeeded /\ IsTrunkBranch(frame.parentBranchName)) =>
        LET b == frame.branchName
        IN  /\ frame.parentBranchName = TrunkName
            /\ b \in DOMAIN gitBranches
            /\ gitBranches[b] = RemoteTrunkCommit
            /\ (TrunkName \in DOMAIN pre.git /\ pre.git[TrunkName] # RemoteTrunkCommit)
                  => gitBranches[b] # pre.git[TrunkName]
            /\ b \in DOMAIN db
            /\ db[b] = Branch(b, BranchState(TrunkName, TRUE, ""), Nil)

\* adopted on a trunk that has no record and whose local branch is behind origin
C16_AdoptedOnStaleTrunk ==
    /\ AdoptDone /\ Succeeded /\ frame.isBranchFromTrunk
    /\ TrunkName \notin DOMAIN pre.db
    /\ TrunkName \in DOMAIN pre.git
    /\ pre.git[TrunkName] = LocalTrunkCommit
    /\ LocalTrunkCommit # RemoteTrunkCommit

(***************************************************************************)
(* C17: within one command, nothing is staged and no git command is run    *)
(* after the commit was invoked; rename's git branch -m comes after the    *)
(* new record, the child updates and the deletion of OLD were staged, and  *)
(* before the commit; adopt's git checkout -b comes before its record is   *)
(* staged; and the committed store changes at the commit step only, to     *)
(* what was staged.                                                        *)
(***************************************************************************)
C17_StepOrdering ==
    /\ [](\A i \in 1..Len(trace) :
            /\ CommitInvoked(i) =>
                  \A j \in (i + 1)..Len(trace) : ~GitCall(j) /\ ~StagedWrite(j)
            /\ GitRenameCall(i) =>
                  /\ \E j \in 1..(i - 1) : trace[j] = "tx.DeleteBranch"
                  /\ \E j \in 1..(i - 1) : trace[j] = "tx.SetBranch"
                  /\ \A j \in 1..Len(trace) : StagedWrite(j) => j < i
                  /\ \A j \in 1..Len(trace) : CommitInvoked(j) => i < j
            /\ trace[i] = "git.checkout -b" =>
                  \A j \in 1..Len(trace) : StagedWrite(j) => i < j)
    /\ [][/\ db' # db => pc \in {"cb_Commit", "bm_Commit"} /\ db' = txView
          /\ (txView' # txView /\ pc # "done") =>
                ~\E i \in 1..Len(trace) : GitRenameCall(i) \/ CommitInvoked(i)
          /\ (gitBranches' # gitBranches \/ head' # head) =>
                ~\E i \in 1..Len(trace) : CommitInvoked(i)]_vars

\* a rename that re-pointed children, renamed the git branch and committed
C17_RenameRanAllSteps ==
    /\ RenameDone /\ Succeeded
    /\ Called("git.branch -m")
    /\ Children(pre.db, frame.oldBranch) # {}

C19_ResolvedExactlyOnce ==
    LET opened == {i \in 1..Len(trace) : trace[i] = "db.WriteTx"}
        resolved == {i \in 1..Len(trace) : CommitInvoked(i) \/ AbortInvoked(i)}
    IN  /\ Cardinality(opened) <= 1
        /\ Cardinality(resolved) <= Cardinality(opened)
        /\ \A i \in resolved : \A j \in opened : j < i
        /\ Done => /\ Cardinality(resolved) = Cardinality(opened)
                   /\ (txStatus = "none") = (opened = {})
                   /\ txStatus # "open"
        /\ \A i, j \in 1..Len(trace) : ~(CommitInvoked(i) /\ AbortInvoked(j))

\* a command returned tx.Commit's error: the commit was invoked, the abort was not
C19_CommitInvokedAndFailed ==
    /\ Done
    /\ Called("tx.Commit failed")
    /\ ~Called("tx.Abort")
    /\ txStatus = "commitFailed"

(***************************************************************************)
(* C20: after a successful rename the store holds the records it held      *)
(* before under names other than OLD, each with its name, parent isTrunk,  *)
(* parent head and pull request as before (a record already named NEW      *)
(* included), and its parent name as before unless that was OLD; the only  *)
(* name added is NEW, OLD is gone, and the number of records is the same   *)
(* when OLD had a record.                                                  *)
(***************************************************************************)
C20_RenameFrame ==
    (RenameDone /\ Succeeded) =>
        LET old == frame.oldBranch
            new == frame.newBranch
            kept == DOMAIN pre.db \ {old}
        IN  /\ \A n \in kept :
                  /\ n \in DOMAIN db
                  /\ db[n].Name = pre.db[n].Name
                  /\ db[n].Parent.Trunk = pre.db[n].Parent.Trunk
                  /\ db[n].Parent.Head = pre.db[n].Parent.Head
                  /\ db[n].PullRequest = pre.db[n].PullRequest
                  /\ pre.db[n].Parent.Name # old =>
                        db[n].Parent.Name = pre.db[n].Parent.Name
            /\ DOMAIN db = kept \cup {new}
            /\ old \in DOMAIN pre.db =>
                  Cardinality(DOMAIN db) = Cardinality(DOMAIN pre.db)

====
